---- MODULE Spec2Model ----
(***************************************************************************)
(* A model of pcombinators (src/combinators.py): the ParseState cursor,    *)
(* the leaf parsers, the combinators and the derived parsers.              *)
(*                                                                         *)
(* A ParseState is one mutable object that every parser returns again, so  *)
(* a parse is modelled by the position it leaves in that object.  Parsers  *)
(* are immutable values (records tagged with their class); parse() is the  *)
(* recursive operator Parse, computed as the code computes it.             *)
(***************************************************************************)
EXTENDS Integers, Sequences, FiniteSets, TLC

(***************************************************************************)
(* Bounds of the model.                                                    *)
(***************************************************************************)
MaxLen == 3

MaxTimes == 2

(***************************************************************************)
(* Python values: None, str, list, int, float.  A value is a record        *)
(* [k, v]; k is the Python type and v a sequence (of one-character         *)
(* strings for a str, of values for a list, of one number for an int, of   *)
(* one record for a float).                                                *)
(***************************************************************************)
None == [k |-> "none", v |-> <<>>]

PyStr(s) == [k |-> "str", v |-> s]

PyList(l) == [k |-> "list", v |-> l]

PyInt(n) == [k |-> "int", v |-> <<n>>]

\* A float is sign and decimal expansion: (-1)^neg * num / 10^exp, with
\* trailing zeros of the fraction removed (7.0 and 7 are the same float).
RECURSIVE Normalize(_, _)
Normalize(num, exp) ==
    IF exp > 0 /\ num % 10 = 0 THEN Normalize(num \div 10, exp - 1)
    ELSE <<num, exp>>

PyFloat(neg, num, exp) ==
    LET n == Normalize(num, exp)
    IN  [k |-> "float", v |-> <<[neg |-> neg, num |-> n[1], exp |-> n[2]]>>]

IsNone(r) == r.k = "none"

\* Python's ==, on values of any two types.
RECURSIVE PyEq(_, _)
PyEq(a, b) ==
    /\ a.k = b.k
    /\ Len(a.v) = Len(b.v)
    /\ IF a.k = "list"
       THEN \A i \in 1..Len(a.v) : PyEq(a.v[i], b.v[i])
       ELSE \A i \in 1..Len(a.v) : a.v[i] = b.v[i]

\* Util.extend_results appending every result, a list included, as one
\* element.
extend_results_Nested(a, e) == Append(a, e)

\* Util.extend_results(a, e): a list is spliced in, anything else appended.
extend_results(a, e) ==
    IF e.k = "list" THEN a \o e.v ELSE Append(a, e)

(***************************************************************************)
(* ParseState: _input is a sequence of characters, _index counts from 0.   *)
(***************************************************************************)
finished(text, ix) == ix = Len(text)

peek(text, ix) == text[ix + 1]

remaining(text, ix) ==
    IF finished(text, ix) THEN <<>> ELSE SubSeq(text, ix + 1, Len(text))

(***************************************************************************)
(* The outcome of parse(): the result r, the position ix the cursor is     *)
(* left at, how the call ended (exit: "ok" it returned, "raise" an         *)
(* exception left it, "hang" it never returns) and, for a combinator, the  *)
(* calls it made to its sub-parsers, in order.                             *)
(***************************************************************************)
Out(r, ix, calls) == [r |-> r, ix |-> ix, exit |-> "ok", calls |-> calls]

Raised(ix, calls) == [r |-> None, ix |-> ix, exit |-> "raise", calls |-> calls]

Hung(ix, calls) == [r |-> None, ix |-> ix, exit |-> "hang", calls |-> calls]

\* One call p.parse(st) made by a combinator: which sub-parser (i), the
\* position it started at, the position it left, and whether it matched.
Call(i, at, o) ==
    [i |-> i, at |-> at, end |-> o.ix, ok |-> o.exit = "ok" /\ ~IsNone(o.r),
     exit |-> o.exit]

(***************************************************************************)
(* The characters the model's parsers and conversions tell apart.          *)
(***************************************************************************)
Digits == {"0", "1", "2", "3", "4", "5", "6", "7", "8", "9"}

Spaces == {" ", "\n", "\r", "\t"}

DigitVal(c) ==
    CASE c = "0" -> 0 [] c = "1" -> 1 [] c = "2" -> 2 [] c = "3" -> 3
      [] c = "4" -> 4 [] c = "5" -> 5 [] c = "6" -> 6 [] c = "7" -> 7
      [] c = "8" -> 8 [] c = "9" -> 9

AllIn(s, set) == \A i \in 1..Len(s) : s[i] \in set

\* The value of a string of decimal digits.
RECURSIVE DigitsVal(_)
DigitsVal(s) ==
    IF Len(s) = 0 THEN 0
    ELSE 10 * DigitsVal(SubSeq(s, 1, Len(s) - 1)) + DigitVal(s[Len(s)])

\* str.strip() as int() and float() apply it to their argument.
RECURSIVE Strip(_)
Strip(s) ==
    IF Len(s) > 0 /\ s[1] \in Spaces THEN Strip(Tail(s))
    ELSE IF Len(s) > 0 /\ s[Len(s)] \in Spaces
         THEN Strip(SubSeq(s, 1, Len(s) - 1))
         ELSE s

\* The position of the first "." of s, 0 when there is none.
RECURSIVE DotAt(_, _)
DotAt(s, i) ==
    IF i > Len(s) THEN 0 ELSE IF s[i] = "." THEN i ELSE DotAt(s, i + 1)

\* int(s) of a str: surrounding whitespace, a sign, one or more digits;
\* anything else raises ValueError.
IntOfStr(s) ==
    LET t    == Strip(s)
        sign == Len(t) > 0 /\ t[1] \in {"-", "+"}
        body == IF sign THEN Tail(t) ELSE t
    IN  IF Len(body) > 0 /\ AllIn(body, Digits)
        THEN [raised |-> FALSE,
              v |-> PyInt(IF sign /\ t[1] = "-" THEN 0 - DigitsVal(body)
                          ELSE DigitsVal(body))]
        ELSE [raised |-> TRUE, v |-> None]

\* float(s) of a str: surrounding whitespace, a sign, digits with at most
\* one "." and at least one digit; anything else raises ValueError.
FloatOfStr(s) ==
    LET t    == Strip(s)
        sign == Len(t) > 0 /\ t[1] \in {"-", "+"}
        body == IF sign THEN Tail(t) ELSE t
        d    == DotAt(body, 1)
        big  == IF d = 0 THEN body ELSE SubSeq(body, 1, d - 1)
        frac == IF d = 0 THEN <<>> ELSE SubSeq(body, d + 1, Len(body))
    IN  IF AllIn(big, Digits) /\ AllIn(frac, Digits) /\ Len(big) + Len(frac) > 0
        THEN [raised |-> FALSE,
              v |-> PyFloat(sign /\ t[1] = "-", DigitsVal(big \o frac), Len(frac))]
        ELSE [raised |-> TRUE, v |-> None]

\* x * multiplier for multiplier in {1, -1}.
Times(x, multiplier) ==
    IF multiplier = 1 THEN x
    ELSE IF x.k = "int" THEN PyInt(0 - x.v[1])
    ELSE PyFloat(~x.v[1].neg, x.v[1].num, x.v[1].exp)

\* ''.join(l) of a list: a TypeError unless every element is a str.
RECURSIVE Join(_)
Join(l) ==
    IF Len(l) = 0 THEN <<>> ELSE l[1].v \o Join(Tail(l))

JoinRaises(l) == \E i \in 1..Len(l) : l[i].k # "str"

\* Python's truth value of a result.
Truthy(r) ==
    CASE r.k = "none"  -> FALSE
      [] r.k = "int"   -> r.v[1] # 0
      [] r.k = "float" -> r.v[1].num # 0
      [] OTHER         -> Len(r.v) > 0

RECURSIVE Pow10(_)
Pow10(n) == IF n = 0 THEN 1 ELSE 10 * Pow10(n - 1)

(***************************************************************************)
(* The unary functions the library hands to >> .  Each yields the value    *)
(* returned, or raised = TRUE when the function raises.                    *)
(***************************************************************************)
Returns(v) == [raised |-> FALSE, v |-> v]

Raises == [raised |-> TRUE, v |-> None]

\* Last: lambda l: l[-1] if isinstance(l, list) else l
fn_last(l) ==
    IF l.k = "list"
    THEN IF Len(l.v) = 0 THEN Raises ELSE Returns(l.v[Len(l.v)])
    ELSE Returns(l)

\* Skip: lambda r: []
fn_skip(r) == Returns(PyList(<<>>))

\* ConcatenateResults: lambda l: ''.join(l) if l and len(l) > 0 else None
fn_concat(l) ==
    IF ~Truthy(l) THEN Returns(None)
    ELSE IF l.k \in {"int", "float"} THEN Raises
    ELSE IF l.k = "str" THEN Returns(l)
    ELSE IF JoinRaises(l.v) THEN Raises
    ELSE Returns(PyStr(Join(l.v)))

\* int
fn_int(r) ==
    CASE r.k = "str"   -> IntOfStr(r.v)
      [] r.k = "int"   -> Returns(r)
      [] r.k = "float" ->
            LET q == r.v[1].num \div Pow10(r.v[1].exp)
            IN  Returns(PyInt(IF r.v[1].neg THEN 0 - q ELSE q))
      [] OTHER         -> Raises

\* CanonicalFloat's c: float(''.join(l)) if l and len(l) > 0, else None
fn_c(l) ==
    IF ~Truthy(l) THEN Returns(None)
    ELSE IF l.k \in {"int", "float"} THEN Raises
    ELSE IF l.k = "str" THEN FloatOfStr(l.v)
    ELSE IF JoinRaises(l.v) THEN Raises
    ELSE FloatOfStr(Join(l.v))

ApplyFn(fn, r) ==
    CASE fn = "last"   -> fn_last(r)
      [] fn = "skip"   -> fn_skip(r)
      [] fn = "concat" -> fn_concat(r)
      [] fn = "int"    -> fn_int(r)
      [] fn = "c"      -> fn_c(r)

(***************************************************************************)
(* Parser values.  A parser holds only what its constructor was given.     *)
(***************************************************************************)
String(s) == [type |-> "String", s |-> s]

OneOf(s) == [type |-> "OneOf", set |-> s]

\* A compiled pattern: one or more characters of cls, written with no
\* group ("[cls]+"), one ("([cls]+)") or two ("([cls])([cls]*)").
Regex(cls, groups) == [type |-> "Regex", cls |-> cls, groups |-> groups]

Transform(inner, tf) == [type |-> "_Transform", inner |-> inner, transform |-> tf]

AtomicSequence(parsers) ==
    [type |-> "_Sequence", atomic |-> TRUE, parsers |-> parsers]

OptimisticSequence(parsers) ==
    [type |-> "_Sequence", atomic |-> FALSE, parsers |-> parsers]

StrictRepeat(parser, repeat) ==
    [type |-> "_Repeat", strict |-> TRUE, parser |-> parser, times |-> repeat]

Repeat(parser, repeat) ==
    [type |-> "_Repeat", strict |-> FALSE, parser |-> parser, times |-> repeat]

FirstAlternative(parsers) == [type |-> "FirstAlternative", parsers |-> parsers]

LongestAlternative(parsers) == [type |-> "LongestAlternative", parsers |-> parsers]

Float == [type |-> "Float"]

Integer == [type |-> "Integer"]

Maybe(p) == Repeat(p, 1)

Last(p) == Transform(p, "last")

Skip(p) == Transform(p, "skip")

ConcatenateResults(p) == Transform(p, "concat")

Nothing == String(<<>>)

CharSet(s) == ConcatenateResults(Repeat(OneOf(s), -1))

Whitespace == FirstAlternative(<<CharSet(Spaces), Nothing>>)

CanonicalInteger ==
    Last(AtomicSequence(<<
        Whitespace,
        Transform(ConcatenateResults(AtomicSequence(<<
            Maybe(String(<<"-">>)), CharSet(Digits)>>)), "int")>>))

CanonicalFloat ==
    LET number == OptimisticSequence(<<
            AtomicSequence(<<Repeat(OneOf({"-"}), 1), CharSet(Digits)>>),
            AtomicSequence(<<Repeat(OneOf({"."}), 1), CharSet(Digits)>>)>>)
    IN  Transform(AtomicSequence(<<Skip(Whitespace), number>>), "c")

(***************************************************************************)
(* The leaf parsers.                                                       *)
(***************************************************************************)
\* String.parse's loop: <<position, i>> when it stops.
RECURSIVE StringLoop(_, _, _, _)
StringLoop(s, text, ix, i) ==
    IF i < Len(s) /\ ~finished(text, ix) /\ s[i + 1] = peek(text, ix)
    THEN StringLoop(s, text, ix + 1, i + 1)
    ELSE <<ix, i>>

\* String.parse without st.reset(initial) after a mismatch.
String_parse_NoReset(p, text, ix) ==
    LET l == StringLoop(p.s, text, ix, 0)
    IN  IF l[2] = Len(p.s) THEN Out(PyStr(p.s), l[1], <<>>)
        ELSE Out(None, l[1], <<>>)

String_parse(p, text, ix) ==
    LET initial == ix
        l       == StringLoop(p.s, text, ix, 0)
    IN  IF l[2] = Len(p.s) THEN Out(PyStr(p.s), l[1], <<>>)
        ELSE Out(None, initial, <<>>)

OneOf_parse(p, text, ix) ==
    IF ~finished(text, ix) /\ peek(text, ix) \in p.set
    THEN Out(PyStr(<<peek(text, ix)>>), ix + 1, <<>>)
    ELSE Out(None, ix, <<>>)

\* re.match of the pattern against s: the end of the match (0: no match).
RECURSIVE MatchEnd(_, _, _)
MatchEnd(cls, s, n) ==
    IF n < Len(s) /\ s[n + 1] \in cls THEN MatchEnd(cls, s, n + 1) ELSE n

Regex_parse(p, text, ix) ==
    LET start == ix
        rem   == remaining(text, ix)
        end   == MatchEnd(p.cls, rem, 0)
        whole == PyStr(SubSeq(rem, 1, end))
    IN  IF end = 0 THEN Out(None, ix, <<>>)
        ELSE IF p.groups > 1
        THEN Out(PyList(<<PyStr(SubSeq(rem, 1, 1)), PyStr(SubSeq(rem, 2, end))>>),
                 start + end, <<>>)
        ELSE Out(whole, start + end, <<>>)

(***************************************************************************)
(* The combinators.  Parse(p, text, ix) is p.parse(st) for a ParseState    *)
(* over text at position ix.  An exception raised below a combinator       *)
(* leaves it at once, with the cursor where the raise left it; a call that *)
(* never returns keeps its caller from returning.                          *)
(***************************************************************************)
RECURSIVE Parse(_, _, _)

Abort(o, calls) == [r |-> None, ix |-> o.ix, exit |-> o.exit, calls |-> calls]

\* _Transform.parse with the exception of the function turned into the
\* failure marker.
Transform_parse_Swallows(p, text, ix) ==
    LET initial == ix
        o       == Parse(p.inner, text, ix)
        calls   == <<Call(1, ix, o)>>
        t       == ApplyFn(p.transform, o.r)
    IN  IF o.exit # "ok" THEN Abort(o, calls)
        ELSE IF IsNone(o.r) THEN Out(None, initial, calls)
        ELSE IF t.raised THEN Out(None, initial, calls)
        ELSE Out(t.v, o.ix, calls)

\* _Transform.parse
Transform_parse(p, text, ix) ==
    LET initial == ix
        o       == Parse(p.inner, text, ix)
        calls   == <<Call(1, ix, o)>>
        t       == ApplyFn(p.transform, o.r)
    IN  IF o.exit # "ok" THEN Abort(o, calls)
        ELSE IF IsNone(o.r) THEN Out(None, initial, calls)
        ELSE IF t.raised THEN Raised(initial, calls)
        ELSE Out(t.v, o.ix, calls)

\* _Sequence.parse without st.reset(initial) in the atomic branch.
SequenceFailed_NoRollback(p, initial, before, o, results, calls) ==
    IF p.atomic THEN Out(None, o.ix, calls)
    ELSE Out(PyList(results), before, calls)

\* _Sequence.parse without st.reset(before) ahead of the break.
SequenceFailed_NoReset(p, initial, before, o, results, calls) ==
    IF p.atomic THEN Out(None, initial, calls)
    ELSE Out(PyList(results), o.ix, calls)

\* _Sequence.parse, when the call o of the sub-parser called at position
\* before failed.
SequenceFailed(p, initial, before, o, results, calls) ==
    IF p.atomic THEN Out(None, initial, calls)
    ELSE Out(PyList(results), before, calls)

\* _Sequence.parse's loop, about to call sub-parser j with the cursor at ix.
RECURSIVE SequenceLoop(_, _, _, _, _, _, _)
SequenceLoop(p, text, initial, j, ix, results, calls) ==
    IF j > Len(p.parsers) THEN Out(PyList(results), ix, calls)
    ELSE LET before == ix
             o      == Parse(p.parsers[j], text, ix)
             cs     == Append(calls, Call(j, before, o))
         IN  IF o.exit # "ok" THEN Abort(o, cs)
             ELSE IF IsNone(o.r)
             THEN SequenceFailed(p, initial, before, o, results, cs)
             ELSE SequenceLoop(p, text, initial, j + 1, o.ix,
                               extend_results(results, o.r), cs)

\* _Sequence.parse; with no sub-parser, "return results, st2" reads a name
\* that was never bound and raises.
Sequence_parse(p, text, ix) ==
    IF Len(p.parsers) = 0 THEN Raised(ix, <<>>)
    ELSE SequenceLoop(p, text, ix, 1, ix, <<>>, <<>>)

\* _Repeat.parse's loop condition, off by one.
RepeatGoesOn_OffByOne(p, i) == i <= p.times \/ p.times < 0

\* _Repeat.parse with a loop condition that does not treat a negative count
\* as unbounded.
RepeatGoesOn_NoUnbounded(p, i) == i < p.times

\* _Repeat.parse's loop condition.
RepeatGoesOn(p, i) == i < p.times \/ p.times < 0

\* _Repeat.parse without st.reset(initial) in the strict branch.
RepeatFailed_NoRollback(p, initial, o, results, calls) ==
    IF p.strict THEN Out(None, o.ix, calls)
    ELSE Out(PyList(results), o.ix, calls)

\* _Repeat.parse carrying on after a failed attempt where the greedy branch
\* returns: the count of matches no longer grows and the loop never ends.
RepeatFailed_NoStop(p, initial, o, results, calls) ==
    IF p.strict THEN Out(None, initial, calls)
    ELSE Hung(o.ix, calls)

\* _Repeat.parse reading a negative count of the strict form as "as many as
\* there are": the first failure ends it with the matches so far.
RepeatFailed_NegativeGreedy(p, initial, o, results, calls) ==
    IF p.strict /\ p.times >= 0 THEN Out(None, initial, calls)
    ELSE Out(PyList(results), o.ix, calls)

\* _Repeat.parse, when the call o of the sub-parser failed.
RepeatFailed(p, initial, o, results, calls) ==
    IF p.strict THEN Out(None, initial, calls)
    ELSE Out(PyList(results), o.ix, calls)

\* _Repeat.parse's loop after i matches, the cursor at ix.  An unbounded
\* loop whose sub-parser matches without moving the cursor is in the state
\* it was in one iteration before, and never ends.
RECURSIVE RepeatLoop(_, _, _, _, _, _, _)
RepeatLoop(p, text, initial, i, ix, results, calls) ==
    IF ~RepeatGoesOn(p, i) THEN Out(PyList(results), ix, calls)
    ELSE LET o  == Parse(p.parser, text, ix)
             cs == Append(calls, Call(1, ix, o))
         IN  IF o.exit # "ok" THEN Abort(o, cs)
             ELSE IF IsNone(o.r) THEN RepeatFailed(p, initial, o, results, cs)
             ELSE IF p.times < 0 /\ o.ix = ix THEN Hung(ix, cs)
             ELSE RepeatLoop(p, text, initial, i + 1, o.ix,
                             extend_results(results, o.r), cs)

Repeat_parse(p, text, ix) == RepeatLoop(p, text, ix, 0, ix, <<>>, <<>>)

\* FirstAlternative.parse without st.reset(initial) after a failed branch.
FirstAfterFailure_NoReset(initial, o) == o.ix

\* FirstAlternative.parse: where the cursor is after the failed call o.
FirstAfterFailure(initial, o) == initial

\* FirstAlternative.parse's loop, about to call sub-parser j.
RECURSIVE FirstLoop(_, _, _, _, _, _)
FirstLoop(p, text, initial, j, ix, calls) ==
    IF j > Len(p.parsers) THEN Out(None, ix, calls)
    ELSE LET o  == Parse(p.parsers[j], text, ix)
             cs == Append(calls, Call(j, ix, o))
         IN  IF o.exit # "ok" THEN Abort(o, cs)
             ELSE IF ~IsNone(o.r) THEN Out(o.r, o.ix, cs)
             ELSE FirstLoop(p, text, initial, j + 1,
                            FirstAfterFailure(initial, o), cs)

FirstAlternative_parse(p, text, ix) == FirstLoop(p, text, ix, 1, ix, <<>>)

\* list.sort(key=lambda t: t[0]): a stable sort, here by insertion.
RECURSIVE InsertByKey(_, _)
InsertByKey(sorted, m) ==
    IF Len(sorted) = 0 \/ sorted[Len(sorted)][1] <= m[1] THEN Append(sorted, m)
    ELSE Append(InsertByKey(SubSeq(sorted, 1, Len(sorted) - 1), m),
                sorted[Len(sorted)])

RECURSIVE SortByKey(_)
SortByKey(l) ==
    IF Len(l) = 0 THEN <<>>
    ELSE InsertByKey(SortByKey(SubSeq(l, 1, Len(l) - 1)), l[Len(l)])

\* list.reverse()
Reversed(l) == [i \in 1..Len(l) |-> l[Len(l) + 1 - i]]

\* for r in matches[1:]: if r[0] < best[0]: break; best = r
RECURSIVE BestScan(_, _, _)
BestScan(matches, j, best) ==
    IF j > Len(matches) \/ matches[j][1] < best[1] THEN best
    ELSE BestScan(matches, j + 1, matches[j])

\* LongestAlternative.parse taking matches[0] without the scan for the
\* earliest of the longest.
LongestBest_NoScan(matches) == Reversed(SortByKey(matches))[1]

\* LongestAlternative.parse's choice among the matches (length, result).
LongestBest(matches) ==
    LET sorted == Reversed(SortByKey(matches))
    IN  BestScan(sorted, 2, sorted[1])

\* LongestAlternative.parse recording the end position of a match in place
\* of its length.
LongestConsumed_EndPosition(initial, o) == o.ix

\* LongestAlternative.parse: st2.index() - initial, the length of a match.
LongestConsumed(initial, o) == o.ix - initial

\* LongestAlternative.parse's loop, about to call sub-parser j; every call
\* is followed by st.reset(initial).
RECURSIVE LongestLoop(_, _, _, _, _, _)
LongestLoop(p, text, initial, j, matches, calls) ==
    IF j > Len(p.parsers)
    THEN IF Len(matches) = 0 THEN Out(None, initial, calls)
         ELSE LET best == LongestBest(matches)
              IN  Out(best[2], initial + best[1], calls)
    ELSE LET o  == Parse(p.parsers[j], text, initial)
             cs == Append(calls, Call(j, initial, o))
         IN  IF o.exit # "ok" THEN Abort(o, cs)
             ELSE IF IsNone(o.r)
             THEN LongestLoop(p, text, initial, j + 1, matches, cs)
             ELSE LongestLoop(p, text, initial, j + 1,
                              Append(matches, <<LongestConsumed(initial, o), o.r>>),
                              cs)

LongestAlternative_parse(p, text, ix) == LongestLoop(p, text, ix, 1, <<>>, <<>>)

(***************************************************************************)
(* The hand-written numeric parsers.                                       *)
(***************************************************************************)
\* Float.parse putting the cursor back before a "." that no digit follows.
Float_parse_DotRollback(text, ix) ==
    LET initial    == ix
        minus      == Parse(String(<<"-">>), text, ix)
        multiplier == IF ~IsNone(minus.r) THEN -1 ELSE 1
        big        == Parse(CharSet(Digits), text, minus.ix)
        dot        == Parse(String(<<".">>), text, big.ix)
        small      == Parse(CharSet(Digits), text, dot.ix)
    IN  IF IsNone(big.r) THEN Out(None, initial, <<>>)
        ELSE IF ~IsNone(dot.r) /\ ~IsNone(small.r)
        THEN Out(Times(FloatOfStr(big.r.v \o <<".">> \o small.r.v).v,
                       multiplier), small.ix, <<>>)
        ELSE Out(Times(FloatOfStr(big.r.v).v, multiplier), big.ix, <<>>)

\* Float.parse
Float_parse(text, ix) ==
    LET initial    == ix
        minus      == Parse(String(<<"-">>), text, ix)
        multiplier == IF ~IsNone(minus.r) THEN -1 ELSE 1
        big        == Parse(CharSet(Digits), text, minus.ix)
        dot        == Parse(String(<<".">>), text, big.ix)
        small      == Parse(CharSet(Digits), text, dot.ix)
    IN  IF IsNone(big.r) THEN Out(None, initial, <<>>)
        ELSE IF ~IsNone(dot.r)
        THEN IF ~IsNone(small.r)
             THEN Out(Times(FloatOfStr(big.r.v \o <<".">> \o small.r.v).v,
                            multiplier), small.ix, <<>>)
             ELSE Out(Times(FloatOfStr(big.r.v).v, multiplier), small.ix, <<>>)
        ELSE Out(Times(FloatOfStr(big.r.v).v, multiplier), dot.ix, <<>>)

\* Integer.parse
Integer_parse(text, ix) ==
    LET initial    == ix
        minus      == Parse(String(<<"-">>), text, ix)
        multiplier == IF ~IsNone(minus.r) THEN -1 ELSE 1
        digits     == Parse(CharSet(Digits), text, minus.ix)
    IN  IF ~IsNone(digits.r)
        THEN Out(Times(IntOfStr(digits.r.v).v, multiplier), digits.ix, <<>>)
        ELSE Out(None, initial, <<>>)

Parse(p, text, ix) ==
    CASE p.type = "String"             -> String_parse(p, text, ix)
      [] p.type = "OneOf"              -> OneOf_parse(p, text, ix)
      [] p.type = "Regex"              -> Regex_parse(p, text, ix)
      [] p.type = "_Transform"         -> Transform_parse(p, text, ix)
      [] p.type = "_Sequence"          -> Sequence_parse(p, text, ix)
      [] p.type = "_Repeat"            -> Repeat_parse(p, text, ix)
      [] p.type = "FirstAlternative"   -> FirstAlternative_parse(p, text, ix)
      [] p.type = "LongestAlternative" -> LongestAlternative_parse(p, text, ix)
      [] p.type = "Float"              -> Float_parse(text, ix)
      [] p.type = "Integer"            -> Integer_parse(text, ix)

(***************************************************************************)
(* The positions of the cursor during a call, and those it is read at.     *)
(***************************************************************************)
\* The sub-parser a combinator p names i in its calls.
SubParser(p, i) ==
    CASE p.type = "_Transform" -> p.inner
      [] p.type = "_Repeat"    -> p.parser
      [] OTHER                 -> p.parsers[i]

\* The sub-parsers Float.parse and Integer.parse call, with the position
\* each is called at.
NumericCalls(p, text, ix) ==
    LET minus == Parse(String(<<"-">>), text, ix)
        big   == Parse(CharSet(Digits), text, minus.ix)
        dot   == Parse(String(<<".">>), text, big.ix)
    IN  {<<String(<<"-">>), ix>>, <<CharSet(Digits), minus.ix>>}
        \cup (IF p.type = "Float" /\ ~IsNone(big.r)
              THEN {<<String(<<".">>), big.ix>>} ELSE {})
        \cup (IF p.type = "Float" /\ ~IsNone(big.r) /\ ~IsNone(dot.r)
              THEN {<<CharSet(Digits), dot.ix>>} ELSE {})

\* Every value _index takes while p.parse(st) runs from position ix: next()
\* adds one, reset() goes to a position saved or computed by the parser.
RECURSIVE Visited(_, _, _)
Visited(p, text, ix) ==
    CASE p.type = "String" -> ix..StringLoop(p.s, text, ix, 0)[1]
      [] p.type \in {"OneOf", "Regex"} -> {ix, Parse(p, text, ix).ix}
      [] p.type \in {"Float", "Integer"} ->
            {ix, Parse(p, text, ix).ix}
            \cup UNION {Visited(c[1], text, c[2]) : c \in NumericCalls(p, text, ix)}
      [] OTHER ->
            LET o == Parse(p, text, ix)
            IN  {ix, o.ix}
                \cup UNION {Visited(SubParser(p, o.calls[j].i), text, o.calls[j].at) :
                                j \in 1..Len(o.calls)}

\* Every position at which p.parse(st) from position ix evaluates
\* st.peek(), directly or in st.next().
RECURSIVE PeekedAt(_, _, _)
PeekedAt(p, text, ix) ==
    CASE p.type = "String" ->
            {ix + k : k \in {k \in 0..StringLoop(p.s, text, ix, 0)[2] :
                                k < Len(p.s) /\ ~finished(text, ix + k)}}
      [] p.type = "OneOf" -> IF ~finished(text, ix) THEN {ix} ELSE {}
      [] p.type = "Regex" -> {}
      [] p.type \in {"Float", "Integer"} ->
            UNION {PeekedAt(c[1], text, c[2]) : c \in NumericCalls(p, text, ix)}
      [] OTHER ->
            LET o == Parse(p, text, ix)
            IN  UNION {PeekedAt(SubParser(p, o.calls[j].i), text, o.calls[j].at) :
                            j \in 1..Len(o.calls)}

(***************************************************************************)
(* The state: one ParseState (input, index) and the latest call of         *)
(* parse() on it: the parser called, the position at entry, the outcome.   *)
(* pc is "ready" when no call is pending inspection, "returned" after a    *)
(* call returned, "raised" after it raised and "hung" when it never        *)
(* returns.                                                                *)
(***************************************************************************)
VARIABLES input, index, pc, parser, entry, outcome

vars == <<input, index, pc, parser, entry, outcome>>

NoParser == [type |-> "none"]

Texts(alphabet) == UNION {[1..n -> alphabet] : n \in 0..MaxLen}

\* The inputs of the combinator laws, and those of the numeric parsers.
Letters == {"a", "7", " "}

NumChars == {"-", "0", "7", ".", " ", "a"}

(***************************************************************************)
(* The parsers the model calls.                                            *)
(***************************************************************************)
kA == String(<<"a">>)

kAA == String(<<"a", "a">>)

kOne == OneOf({"a", "7"})

kSkip == Skip(String(<<"a">>))

kConcat == ConcatenateResults(Skip(String(<<"a">>)))

kInt == Transform(OneOf({"a", "7"}), "int")

kMaybe == Maybe(String(<<"a">>))

Kids == {kA, kAA, kOne, kSkip, kConcat, kInt, kMaybe}

KidLists ==
    {<<k>> : k \in Kids} \cup {<<k1, k2>> : k1 \in Kids, k2 \in Kids}
    \cup {<<kA, kOne, kA>>, <<kConcat, kA, kOne>>, <<kSkip, kMaybe, kAA>>,
          <<kSkip, kMaybe, kOne>>}

Functions == {"last", "skip", "concat", "int", "c"}

Strings == {String(s) : s \in {<<>>, <<"a">>, <<"a", "a">>, <<"a", "7">>}}

OneOfs == {OneOf({"a"}), OneOf({"a", "7"}), OneOf({" "})}

Regexes == {Regex({"a"}, g) : g \in 0..2} \cup {Regex({"a", "7"}, 0)}

Transforms == {Transform(k, f) : k \in Kids, f \in Functions}

AtomicSequences == {AtomicSequence(l) : l \in KidLists}

OptimisticSequences == {OptimisticSequence(l) : l \in KidLists}

StrictRepeats == {StrictRepeat(k, n) : k \in Kids, n \in -1..MaxTimes}

\* Parsers that match without consuming input, besides kMaybe.
ZeroWidthKids == {Nothing, Whitespace}

Repeats == {Repeat(k, n) : k \in Kids \cup ZeroWidthKids, n \in -1..MaxTimes}

FirstAlternatives == {FirstAlternative(l) : l \in KidLists}

LongestAlternatives == {LongestAlternative(l) : l \in KidLists}

(***************************************************************************)
(* Actions.                                                                *)
(***************************************************************************)
\* ps(s): a ParseState over s, at position 0.
InitOver(alphabet) ==
    /\ input \in Texts(alphabet)
    /\ index = 0
    /\ pc = "ready"
    /\ parser = NoParser
    /\ entry = 0
    /\ outcome = Out(None, 0, <<>>)

\* The caller runs p.parse(st) to its end.
Call_parse(p) ==
    LET o == Parse(p, input, index)
    IN  /\ pc = "ready"
        /\ index' = o.ix
        /\ pc' = (CASE o.exit = "ok" -> "returned"
                    [] o.exit = "raise" -> "raised"
                    [] o.exit = "hang" -> "hung")
        /\ parser' = p
        /\ entry' = index
        /\ outcome' = o
        /\ UNCHANGED input

\* ParseState.reset(ix), by the caller between two calls of parse().
Reset ==
    /\ pc \in {"ready", "returned", "raised"}
    /\ \E ix \in 0..Len(input) :
        /\ index' = ix
        /\ pc' = "ready"
        /\ parser' = NoParser
        /\ entry' = ix
        /\ outcome' = Out(None, ix, <<>>)
    /\ UNCHANGED input

ParseString == \E p \in Strings : Call_parse(p)

ParseOneOf == \E p \in OneOfs : Call_parse(p)

ParseRegex == \E p \in Regexes : Call_parse(p)

ParseTransform == \E p \in Transforms : Call_parse(p)

ParseAtomicSequence == \E p \in AtomicSequences : Call_parse(p)

ParseOptimisticSequence == \E p \in OptimisticSequences : Call_parse(p)

ParseStrictRepeat == \E p \in StrictRepeats : Call_parse(p)

ParseRepeat == \E p \in Repeats : Call_parse(p)

ParseFirstAlternative == \E p \in FirstAlternatives : Call_parse(p)

ParseLongestAlternative == \E p \in LongestAlternatives : Call_parse(p)

ParseInteger == Call_parse(Integer)

ParseFloat == Call_parse(Float)

ParseCanonicalInteger == Call_parse(CanonicalInteger)

ParseCanonicalFloat == Call_parse(CanonicalFloat)

ParseWhitespace == Call_parse(Whitespace)

Init == InitOver(Letters)

Next ==
    \/ ParseString
    \/ ParseOneOf
    \/ ParseRegex
    \/ ParseTransform
    \/ ParseAtomicSequence
    \/ ParseOptimisticSequence
    \/ ParseStrictRepeat
    \/ ParseRepeat
    \/ ParseFirstAlternative
    \/ ParseLongestAlternative
    \/ Reset

Spec == Init /\ [][Next]_vars

\* The numeric parsers, over inputs of signs, digits, dots and blanks.
NumInit == InitOver(NumChars)

NumNext ==
    \/ ParseInteger
    \/ ParseFloat
    \/ ParseCanonicalInteger
    \/ ParseCanonicalFloat
    \/ ParseWhitespace
    \/ Reset

NumSpec == NumInit /\ [][NumNext]_vars

(***************************************************************************)
(* Properties.                                                             *)
(***************************************************************************)
Returned == pc = "returned"

Failed == Returned /\ IsNone(outcome.r)

Succeeded == Returned /\ ~IsNone(outcome.r)

\* What sub-parser j of the latest call does when called at position ix.
Sub(j, ix) == Parse(parser.parsers[j], input, ix)

Matches(o) == o.exit = "ok" /\ ~IsNone(o.r)

NCalls == Len(outcome.calls)

FailedCalls == {j \in 1..NCalls : ~outcome.calls[j].ok}

Min(S) == CHOOSE x \in S : \A y \in S : x <= y

Max(S) == CHOOSE x \in S : \A y \in S : x >= y

\* C1: whenever a parser returns the failure marker, the cursor is at the
\* position it had when the parser was called.
C1_NoConsumptionOnFailure == Failed => index = entry

\* C2: an AtomicSequence one of whose sub-parsers fails returns the failure
\* marker with the cursor at the position before the first sub-parser ran.
C2_AtomicRollback ==
    (Returned /\ parser.type = "_Sequence" /\ parser.atomic /\ FailedCalls # {})
        => IsNone(outcome.r) /\ index = entry

\* C2 witness: the third sub-parser failed after the first two consumed input.
C2_Witness ==
    /\ Returned /\ parser.type = "_Sequence" /\ parser.atomic
    /\ NCalls = 3 /\ FailedCalls = {3}
    /\ outcome.calls[3].at >= entry + 2
    /\ IsNone(outcome.r) /\ index = entry

\* The end position of the first k sub-parsers run one after the other
\* from the entry position, and their results flattened into one list.
RECURSIVE PrefixEnd(_)
PrefixEnd(k) == IF k = 0 THEN entry ELSE Sub(k, PrefixEnd(k - 1)).ix

RECURSIVE PrefixResults(_)
PrefixResults(k) ==
    IF k = 0 THEN <<>>
    ELSE LET r == Sub(k, PrefixEnd(k - 1)).r
         IN  PrefixResults(k - 1) \o (IF r.k = "list" THEN r.v ELSE <<r>>)

PrefixMatches(k) == \A j \in 1..k : Matches(Sub(j, PrefixEnd(j - 1)))

LongestPrefix == Max({k \in 0..Len(parser.parsers) : PrefixMatches(k)})

C4_RepeatBounded ==
    (pc \in {"returned", "raised"} /\ parser.type = "_Repeat" /\ ~parser.strict
        /\ parser.times >= 0)
        => /\ ~Failed
           /\ NCalls <= parser.times
           /\ Cardinality((1..NCalls) \ FailedCalls) \in 0..parser.times

\* C4 witness: N = 2 matches were made and p would match a third time.
C4_Witness ==
    /\ Returned /\ parser.type = "_Repeat" /\ ~parser.strict
    /\ parser.times = 2 /\ NCalls = 2 /\ FailedCalls = {}
    /\ Matches(Parse(parser.parser, input, index))

\* The sub-parsers of an alternation that match from the entry position,
\* and the length each consumes.
Candidates == {j \in 1..Len(parser.parsers) : Matches(Sub(j, entry))}

Consumed(j) == Sub(j, entry).ix - entry

MaxConsumed == Max({Consumed(j) : j \in Candidates})

Winner == Min({j \in Candidates : Consumed(j) = MaxConsumed})

\* C5: a LongestAlternative with a matching branch returns the result of
\* the lowest-indexed branch among those consuming the maximal length, with
\* the cursor at start + that length.
C5_LongestStable ==
    (Returned /\ parser.type = "LongestAlternative" /\ Candidates # {})
        => /\ PyEq(outcome.r, Sub(Winner, entry).r)
           /\ index = entry + MaxConsumed

\* C5 witness: two branches consume the same maximal length with different
\* results, and the earlier one's result is returned.
C5_Witness ==
    /\ Returned /\ parser.type = "LongestAlternative"
    /\ \E i, j \in Candidates :
        /\ i < j /\ i = Winner
        /\ Consumed(j) = MaxConsumed /\ MaxConsumed > 0
        /\ ~PyEq(Sub(i, entry).r, Sub(j, entry).r)
        /\ PyEq(outcome.r, Sub(i, entry).r)

\* C6: FirstAlternative calls its branches in order, each from the entry
\* position, stops at the first that matches and returns its result and
\* end position; when none matches it fails with the cursor at the entry
\* position.
C6_FirstMatch ==
    (Returned /\ parser.type = "FirstAlternative")
        => /\ \A j \in 1..NCalls :
                outcome.calls[j].i = j /\ outcome.calls[j].at = entry
           /\ IF Candidates = {}
              THEN /\ IsNone(outcome.r) /\ index = entry
                   /\ NCalls = Len(parser.parsers)
              ELSE /\ PyEq(outcome.r, Sub(Min(Candidates), entry).r)
                   /\ index = Sub(Min(Candidates), entry).ix
                   /\ NCalls = Min(Candidates)

\* C6 witness: the first branch failed leaving the cursor moved, the second
\* matched from the entry position, and a third that would match was not
\* called.
C6_Witness ==
    /\ Returned /\ parser.type = "FirstAlternative"
    /\ Len(parser.parsers) = 3 /\ NCalls = 2
    /\ outcome.calls[1].end > entry
    /\ Candidates = {2, 3}
    /\ index = Sub(2, entry).ix

\* Two parsers agree on the input: both fail, or both match with the same
\* value and end position.
Agree(a, b) ==
    \/ IsNone(a.r) /\ IsNone(b.r)
    \/ ~IsNone(a.r) /\ ~IsNone(b.r) /\ PyEq(a.r, b.r) /\ a.ix = b.ix

\* C7: from position 0, Integer and CanonicalInteger both fail or both
\* match with the same value and end position.
C7_IntegerParity ==
    (Returned /\ parser.type = "Integer" /\ entry = 0)
        => Agree(outcome, Parse(CanonicalInteger, input, 0))

\* C8: from position 0, Float and CanonicalFloat both fail or both match
\* with the same value and end position.
C8_FloatParity ==
    (Returned /\ parser.type = "Float" /\ entry = 0)
        => Agree(outcome, Parse(CanonicalFloat, input, 0))

\* C9: StrictRepeat(p, N) with N >= 0 succeeds only after N matches of p in
\* a row; when p fails before, it returns the failure marker with the
\* cursor at the position before the first attempt.
C9_StrictRepeat ==
    (Returned /\ parser.type = "_Repeat" /\ parser.strict /\ parser.times >= 0)
        => /\ ~IsNone(outcome.r) =>
                NCalls = parser.times /\ FailedCalls = {}
           /\ FailedCalls # {} => IsNone(outcome.r) /\ index = entry

\* C9 witness: the first match consumed input and the second attempt failed.
C9_Witness ==
    /\ Returned /\ parser.type = "_Repeat" /\ parser.strict
    /\ parser.times = 2 /\ NCalls = 2 /\ FailedCalls = {2}
    /\ outcome.calls[1].end > entry
    /\ IsNone(outcome.r) /\ index = entry

\* The function of a transform parser t raises on the result its inner
\* parser gives at position ix.
FnRaises(t, ix) ==
    /\ t.type = "_Transform"
    /\ Matches(Parse(t.inner, input, ix))
    /\ ApplyFn(t.transform, Parse(t.inner, input, ix).r).raised

\* The sub-parser a combinator calls first.
FirstSub ==
    IF parser.type = "_Repeat" THEN parser.parser ELSE parser.parsers[1]

\* C10: when the inner parser of p >> fn matches and fn raises, the call
\* raises with the cursor back at the position before the attempt; a
\* combinator whose sub-parser raises so raises too, with no further call.
C10_TransformRaises ==
    /\ (pc # "ready" /\ FnRaises(parser, entry))
            => pc = "raised" /\ index = entry
    /\ (pc # "ready"
        /\ parser.type \in {"FirstAlternative", "LongestAlternative", "_Sequence"}
        /\ FnRaises(FirstSub, entry))
            => pc = "raised" /\ index = entry /\ NCalls = 1
    /\ (pc # "ready" /\ parser.type = "_Repeat" /\ parser.times # 0
        /\ FnRaises(FirstSub, entry))
            => pc = "raised" /\ index = entry /\ NCalls = 1
    /\ \A j \in 1..NCalls :
            outcome.calls[j].exit = "raise" => pc = "raised" /\ j = NCalls

\* C10 witness: the first branch of an alternation raised in its function
\* after its inner parser consumed input; the second branch, which matches,
\* was not called.
C10_Witness ==
    /\ pc = "raised" /\ parser.type = "FirstAlternative"
    /\ Len(parser.parsers) = 2 /\ NCalls = 1
    /\ FnRaises(FirstSub, entry)
    /\ Parse(FirstSub.inner, input, entry).ix > entry
    /\ Matches(Sub(2, entry))
    /\ index = entry

InRange(x) == 0 <= x /\ x <= Len(input)

\* C11: the cursor stays within 0..length(text) in every state during and
\* after a parse, and no parser reads the character at a position that is
\* not below length(text).
C11_CursorInRange ==
    /\ InRange(index)
    /\ pc # "ready" =>
        /\ \A x \in Visited(parser, input, entry) : InRange(x)
        /\ \A x \in PeekedAt(parser, input, entry) : x < Len(input)

\* C11 witness: an alternation called beyond position 0 ran a branch into
\* the end of the text and left the cursor there.
C11_Witness ==
    /\ Succeeded /\ parser.type = "LongestAlternative"
    /\ entry > 0 /\ index = Len(input)
    /\ FailedCalls # {}
    /\ PeekedAt(parser, input, entry) # {}
    /\ Len(input) \in Visited(parser, input, entry)

\* The text from position i begins with s.
BeginsWith(i, s) ==
    /\ i + Len(s) <= Len(input)
    /\ \A k \in 1..Len(s) : input[i + k] = s[k]

\* C12: String(s) at position i matches exactly when the text from i begins
\* with s; then the result is s and the cursor is at i + len(s); otherwise
\* it fails with the cursor back at i.
C12_StringLiteral ==
    (pc # "ready" /\ parser.type = "String")
        => /\ Returned
           /\ IF BeginsWith(entry, parser.s)
              THEN /\ PyEq(outcome.r, PyStr(parser.s))
                   /\ index = entry + Len(parser.s)
              ELSE IsNone(outcome.r) /\ index = entry

\* C12 witness: the text ended inside the literal after its first character
\* matched, and the parser failed with the cursor back where it started.
C12_Witness ==
    /\ Failed /\ parser.type = "String"
    /\ Len(parser.s) = 2 /\ entry + 1 = Len(input)
    /\ input[entry + 1] = parser.s[1]
    /\ index = entry

MatchedCalls == (1..NCalls) \ FailedCalls

\* Where the last successful match of the sub-parser ended: the entry
\* position when there was none.
LastMatchEnd ==
    IF MatchedCalls = {} THEN entry ELSE outcome.calls[Max(MatchedCalls)].end

\* C13: Repeat(p, N) returns with the cursor where the last successful match
\* of p ended, or at the entry position after zero matches, whatever the
\* failing attempt of p did to the cursor.
C13_RepeatCursor ==
    (Returned /\ parser.type = "_Repeat" /\ ~parser.strict)
        => index = LastMatchEnd

\* The repeated parser matches at position x without consuming input.
ZeroWidthAt(x) ==
    LET o == Parse(parser.parser, input, x) IN Matches(o) /\ o.ix = x

ZeroWidthCalls == {j \in 1..NCalls : /\ outcome.calls[j].ok
                                     /\ outcome.calls[j].end = outcome.calls[j].at}

\* C14: a Repeat with a negative count whose parser matches without consuming
\* input at the current position never returns, and the cursor stays at that
\* position: at the entry position, and at any position the loop reaches.
C14_ZeroWidthNeverReturns ==
    (pc # "ready" /\ parser.type = "_Repeat" /\ ~parser.strict
                  /\ parser.times < 0)
        => /\ ZeroWidthAt(entry) =>
                /\ pc = "hung" /\ index = entry
                /\ \A j \in 1..NCalls : j \in ZeroWidthCalls
           /\ \A x \in entry..Len(input) :
                (ZeroWidthAt(x) /\ \E j \in 1..NCalls : outcome.calls[j].at = x)
                    => pc = "hung" /\ index = x

\* Maybe(q) repeated without bound where q fails with input left.
C14_Witness ==
    /\ pc = "hung" /\ parser.type = "_Repeat" /\ ~parser.strict
    /\ parser.parser = kMaybe
    /\ entry < Len(input) /\ ZeroWidthAt(entry) /\ index = entry

\* Whitespace repeated without bound: blanks consumed, then no progress.
C14_WitnessAfterProgress ==
    /\ pc = "hung" /\ parser.type = "_Repeat" /\ ~parser.strict
    /\ parser.parser = Whitespace
    /\ index > entry /\ ZeroWidthAt(index)

\* The text at the entry position, read as [-]ddd: the length of the sign,
\* where the digits start and where the run of digits ends.
SignLen == IF entry < Len(input) /\ input[entry + 1] = "-" THEN 1 ELSE 0

IntStart == entry + SignLen

IntEnd ==
    Max({e \in IntStart..Len(input) :
            \A k \in (IntStart + 1)..e : input[k] \in Digits})

\* An integer part, then a "." that no digit follows.
LoneDot ==
    /\ IntEnd > IntStart
    /\ IntEnd < Len(input) /\ input[IntEnd + 1] = "."
    /\ (IntEnd + 1 = Len(input) \/ input[IntEnd + 2] \notin Digits)

\* C15: on [-]ddd. with no digit after the ".", Float succeeds with the value
\* of the integer part and leaves the cursor immediately after the ".".
C15_FloatLoneDot ==
    (pc # "ready" /\ parser.type = "Float" /\ LoneDot)
        => /\ Succeeded
           /\ PyEq(outcome.r,
                   PyFloat(SignLen = 1,
                           DigitsVal(SubSeq(input, IntStart + 1, IntEnd)), 0))
           /\ index = IntEnd + 1

\* A signed integer part and a "." that ends the text.
C15_Witness ==
    /\ Succeeded /\ parser.type = "Float" /\ LoneDot
    /\ SignLen = 1 /\ index = IntEnd + 1 /\ index = Len(input)

\* The result of the j-th call of the latest sequence, and what it adds to
\* the sequence's list.
CallResult(j) == Sub(j, outcome.calls[j].at).r

Contribution(j) ==
    IF CallResult(j).k = "list" THEN CallResult(j).v ELSE <<CallResult(j)>>

RECURSIVE Flattened(_)
Flattened(k) == IF k = 0 THEN <<>> ELSE Flattened(k - 1) \o Contribution(k)

Advancing(p) ==
    \A x \in 0..Len(input) :
        LET o == Parse(p, input, x)
        IN  o.exit # "hang" /\ (Matches(o) => o.ix > x)

\* C17: when p always ends and every match of p consumes at least one
\* character, Repeat(p, -1) ends after at most Len(input) - entry matches of
\* p and one failing attempt.
C17_AdvancingRepeatEnds ==
    (pc # "ready" /\ parser.type = "_Repeat" /\ ~parser.strict
                  /\ parser.times < 0 /\ Advancing(parser.parser))
        => /\ pc # "hung"
           /\ Cardinality(MatchedCalls) <= Len(input) - entry
           /\ Cardinality(FailedCalls) <= 1
           /\ FailedCalls \subseteq {NCalls}

\* The bound is met: one match per character of the whole text, then the
\* failing attempt at its end.
C17_Witness ==
    /\ Returned /\ parser.type = "_Repeat" /\ ~parser.strict
    /\ parser.times < 0 /\ Advancing(parser.parser)
    /\ entry = 0 /\ Len(input) = MaxLen
    /\ Cardinality(MatchedCalls) = Len(input)
    /\ FailedCalls = {NCalls} /\ index = Len(input)

\* C18: StrictRepeat(p, N) with N < 0 never succeeds: it matches p until the
\* first failure of p and then returns the failure marker with the cursor at
\* the entry position, or it never returns when p does not fail.
C18_NegativeStrictNeverSucceeds ==
    (pc # "ready" /\ parser.type = "_Repeat" /\ parser.strict
                  /\ parser.times < 0)
        => /\ ~Succeeded
           /\ Returned => /\ index = entry
                          /\ FailedCalls = {NCalls}
                          /\ outcome.calls[NCalls].exit = "ok"
           /\ pc = "hung" => FailedCalls = {}
           /\ pc = "raised" => /\ FailedCalls = {NCalls}
                               /\ outcome.calls[NCalls].exit = "raise"

\* Two matches from a position inside the text, then the failure of p at the
\* end of the text, and the cursor back where it was.
C18_Witness ==
    /\ Failed /\ parser.type = "_Repeat" /\ parser.strict /\ parser.times < 0
    /\ entry > 0 /\ index = entry
    /\ Cardinality(MatchedCalls) = 2
    /\ outcome.calls[NCalls].at = Len(input)

\* The exact repetition without bound of a parser that does not fail.
C18_WitnessNeverReturns ==
    /\ pc = "hung" /\ parser.type = "_Repeat" /\ parser.strict
    /\ parser.times < 0 /\ index > entry

====
